---- MODULE Spec2Model ----
(***************************************************************************)
(* A model of bot.py: the ledger bot (users and transactions tables        *)
(* behind the Database context manager), the text handler handle_message,  *)
(* the commands /reset /export /graph /helpme and the chunked broadcast.   *)
(*                                                                         *)
(* Handlers are coroutines on one event loop: a handler runs without       *)
(* interruption up to its next await, so every handler whose storage work  *)
(* precedes its single await is one action, and broadcast_message is a     *)
(* process with one step per await (send_message) and per blocking sleep.  *)
(* Text is a sequence of one-character strings.  Amounts are held in       *)
(* hundredths (float("12.50") is 1250), so sums are exact decimal sums.    *)
(***************************************************************************)
EXTENDS Integers, Sequences, FiniteSets, TLC

(***************************************************************************)
(* Bounds of the model.                                                    *)
(***************************************************************************)
NumChats == 2        \* chat ids are 1..NumChats
MaxTx == 2           \* rows the transactions table may hold at a time

ChatIds == 1..NumChats

(***************************************************************************)
(* Program constants.                                                      *)
(***************************************************************************)
MAX_MSG_LEN == 4096
DefaultCategory == "general"

\* One unit of amount is 1/Scale: float() of a text with at most two decimals.
Scale == 100

(***************************************************************************)
(* Text helpers.                                                           *)
(***************************************************************************)
Whitespace == {" ", "\n", "\t"}
Digits == {"0", "1", "2", "3", "4", "5", "6", "7", "8", "9"}

DigitVal(ch) ==
    CASE ch = "0" -> 0 [] ch = "1" -> 1 [] ch = "2" -> 2 [] ch = "3" -> 3
      [] ch = "4" -> 4 [] ch = "5" -> 5 [] ch = "6" -> 6 [] ch = "7" -> 7
      [] ch = "8" -> 8 [] ch = "9" -> 9

\* str.strip(): drop leading and trailing whitespace.
RECURSIVE LStrip(_)
LStrip(s) == IF s # <<>> /\ Head(s) \in Whitespace THEN LStrip(Tail(s)) ELSE s

RECURSIVE RStrip(_)
RStrip(s) ==
    IF s # <<>> /\ s[Len(s)] \in Whitespace THEN RStrip(SubSeq(s, 1, Len(s) - 1)) ELSE s

Strip(s) == RStrip(LStrip(s))

AllDigits(s) == Len(s) >= 1 /\ \A i \in 1..Len(s) : s[i] \in Digits

\* the text after an optional leading sign
Unsigned(s) == IF s # <<>> /\ Head(s) \in {"+", "-"} THEN Tail(s) ELSE s

\* the mutant of the pattern: the digits after the point are optional,
\* r'^[+-]?\d+(\.\d*)?$'
AmountMatchLax(s) ==
    LET u == Unsigned(s)
    IN  \/ AllDigits(u)
        \/ \E p \in 1..Len(u) :
              /\ u[p] = "."
              /\ AllDigits(SubSeq(u, 1, p - 1))
              /\ \A i \in (p + 1)..Len(u) : u[i] \in Digits

\* re.match(r'^[+-]?\d+(\.\d+)?$', text)
AmountMatch(s) ==
    LET u == Unsigned(s)
    IN  \/ AllDigits(u)
        \/ \E p \in 1..Len(u) :
              /\ u[p] = "."
              /\ AllDigits(SubSeq(u, 1, p - 1))
              /\ AllDigits(SubSeq(u, p + 1, Len(u)))

\* value of a digit string read as a decimal integer
RECURSIVE DecVal(_)
DecVal(s) == IF s = <<>> THEN 0 ELSE 10 * DecVal(SubSeq(s, 1, Len(s) - 1)) + DigitVal(s[Len(s)])

RECURSIVE Pow10(_)
Pow10(n) == IF n = 0 THEN 1 ELSE 10 * Pow10(n - 1)

\* float(match.group()) for a text AmountMatch accepts, in units of 1/Scale
ParseAmount(s) ==
    LET u == Unsigned(s)
        sign == IF s[1] = "-" THEN -1 ELSE 1
        dots == {p \in 1..Len(u) : u[p] = "."}
        p == IF dots = {} THEN Len(u) + 1 ELSE CHOOSE q \in dots : TRUE
        whole == SubSeq(u, 1, p - 1)
        frac == SubSeq(u, p + 1, Len(u))
    IN  sign * (DecVal(whole) * Scale + (DecVal(frac) * Scale) \div Pow10(Len(frac)))

\* " ".join(args)
RECURSIVE Join(_)
Join(args) ==
    IF args = <<>> THEN <<>>
    ELSE IF Len(args) = 1 THEN args[1]
    ELSE args[1] \o <<" ">> \o Join(Tail(args))

\* s[lo..hi] with every backslash-n pair replaced by a line break.  The two
\* characters of the pair differ, so occurrences never overlap and the
\* range may be split anywhere that does not cut a pair.
RECURSIVE ReplaceRange(_, _, _)
ReplaceRange(s, lo, hi) ==
    IF lo > hi THEN <<>>
    ELSE IF lo = hi THEN <<s[lo]>>
    ELSE IF hi = lo + 1 /\ s[lo] = "\\" /\ s[hi] = "n" THEN <<"\n">>
    ELSE LET m == (lo + hi) \div 2
             cut == IF s[m] = "\\" /\ s[m + 1] = "n" THEN m - 1 ELSE m
         IN  ReplaceRange(s, lo, cut) \o ReplaceRange(s, cut + 1, hi)

\* message = " ".join(context.args).replace("\\n", "\n")
Normalize(args) == LET j == Join(args) IN ReplaceRange(j, 1, Len(j))

Min(a, b) == IF a < b THEN a ELSE b

\* the chunking mutant: the slice ends one character early,
\* message[i:i + MAX_MSG_LEN - 1]
ChunksShort(message) ==
    [j \in 1..((Len(message) + MAX_MSG_LEN - 1) \div MAX_MSG_LEN) |->
        SubSeq(message, (j - 1) * MAX_MSG_LEN + 1, Min(j * MAX_MSG_LEN - 1, Len(message)))]

\* [message[i:i + MAX_MSG_LEN] for i in range(0, len(message), MAX_MSG_LEN)]
Chunks(message) ==
    [j \in 1..((Len(message) + MAX_MSG_LEN - 1) \div MAX_MSG_LEN) |->
        SubSeq(message, (j - 1) * MAX_MSG_LEN + 1, Min(j * MAX_MSG_LEN, Len(message)))]

RECURSIVE Concat(_)
Concat(seqs) == IF seqs = <<>> THEN <<>> ELSE Head(seqs) \o Concat(Tail(seqs))

(***************************************************************************)
(* Inputs.                                                                 *)
(***************************************************************************)
\* texts a user may send: "+12.50", " -3 ", "abc", "1.", ".5", "12a"
InputTexts ==
    { <<"+", "1", "2", ".", "5", "0">>, <<" ", "-", "3", " ">>,
      <<"a", "b", "c">>, <<"1", ".">>, <<".", "5">>, <<"1", "2", "a">> }

\* the texts of InputTexts that are not a signed decimal
NonDecimalTexts ==
    { <<"a", "b", "c">>, <<"1", ".">>, <<".", "5">>, <<"1", "2", "a">> }

\* text = update.message.text.strip(), the match and float(match.group()),
\* per input text
ParsedText ==
    [t \in InputTexts |->
        LET stripped == Strip(t)
        IN  [match |-> AmountMatch(stripped),
             amount |-> IF AmountMatch(stripped) THEN ParseAmount(stripped) ELSE 0]]

\* a word of n characters whose content depends on the position
Filler(n) == [i \in 1..n |-> IF i % 3 = 0 THEN "a" ELSE IF i % 3 = 1 THEN "b" ELSE "c"]

\* context.args of the /broadcast commands an administrator may send:
\* none; "x"; "a\nb c" (with the two-character escape); one word of
\* MAX_MSG_LEN characters; MAX_MSG_LEN - 1 characters followed by an
\* escape (MAX_MSG_LEN + 1 characters once normalized); 2 * MAX_MSG_LEN
\* characters
BroadcastArgs ==
    << <<>>,
       << <<"x">> >>,
       << <<"a", "\\", "n", "b">>, <<"c">> >>,
       << Filler(MAX_MSG_LEN) >>,
       << Filler(MAX_MSG_LEN - 1), <<"\\", "n">> >>,
       << Filler(2 * MAX_MSG_LEN) >> >>

BroadcastInputs == 1..Len(BroadcastArgs)

\* the normalized message and its chunks, per broadcast input
MessageOf == [k \in BroadcastInputs |-> Normalize(BroadcastArgs[k])]
ChunksOf == [k \in BroadcastInputs |-> Chunks(MessageOf[k])]

(***************************************************************************)
(* The Database context manager.  Every storage operation opens its own    *)
(* connection; o is what happens to it.                                    *)
(***************************************************************************)
StorageOutcomes == {"ok", "raised", "commit_failed"}

\* "raised": the with statement is left by an exception.  __enter__ logs a
\* failed connect and then reads self.cursor, which was never set
\* (AttributeError); an error of db.execute passes through __exit__, which
\* returns None.
Raises(o) == o = "raised"

\* __exit__ commits; a failed commit is logged and the with statement ends
\* normally, the write being lost with the connection.
Persisted(o) == o = "ok"

\* __exit__ closes the connection after the commit, inside the same try: a
\* failed commit skips conn.close().  When the connect itself failed there
\* is no connection.
Closed(o) == o # "commit_failed"

(***************************************************************************)
(* Tables and the utility functions.                                       *)
(***************************************************************************)
\* users(chat_id UNIQUE): the constraint INSERT OR IGNORE relies on
UsersChatIdUnique == TRUE

HasUser(tbl, c) == \E i \in 1..Len(tbl) : tbl[i] = c

\* INSERT OR IGNORE INTO users (chat_id) VALUES (?)
InsertOrIgnore(tbl, c) ==
    IF UsersChatIdUnique /\ HasUser(tbl, c) THEN tbl ELSE Append(tbl, c)

add_user(tbl, c, o) == IF Persisted(o) THEN InsertOrIgnore(tbl, c) ELSE tbl

\* the mutant of save_transaction: the row is filed under a fixed chat
save_transaction_wrong_chat(tbl, c, amount, o) ==
    IF Persisted(o)
    THEN Append(tbl, [amount |-> amount, category |-> DefaultCategory, chat_id |-> 1])
    ELSE tbl

\* INSERT INTO transactions (amount, date, category, chat_id) VALUES (...)
save_transaction(tbl, c, amount, o) ==
    IF Persisted(o)
    THEN Append(tbl, [amount |-> amount, category |-> DefaultCategory, chat_id |-> c])
    ELSE tbl

\* SELECT * FROM transactions WHERE chat_id = ?
RowsOf(tbl, c) == SelectSeq(tbl, LAMBDA r : r.chat_id = c)

RECURSIVE SumSeq(_)
SumSeq(rows) == IF rows = <<>> THEN 0 ELSE Head(rows).amount + SumSeq(Tail(rows))

\* SELECT SUM(amount) ... WHERE chat_id = ?: <<>> is NULL (no row), <<v>> a value
SqlSum(tbl, c) == IF RowsOf(tbl, c) = <<>> THEN <<>> ELSE <<SumSeq(RowsOf(tbl, c))>>

\* db.fetchone()[0] or 0
get_total(tbl, c) ==
    LET s == SqlSum(tbl, c) IN IF s = <<>> \/ s[1] = 0 THEN 0 ELSE s[1]

\* DELETE FROM transactions WHERE chat_id = ?
DeleteOf(tbl, c) == SelectSeq(tbl, LAMBDA r : r.chat_id # c)

(***************************************************************************)
(* State.                                                                  *)
(***************************************************************************)
VARIABLES
    users,          \* the users table: chat ids in insertion order
    transactions,   \* the transactions table: rows in insertion order
    bc,             \* the broadcast_message coroutine in flight
    log,            \* the send attempts of the current broadcast, in order
    last,           \* the handler that completed last and the reply it sent
    recorded,       \* per chat: sum of the valid amounts sent since its last /reset
    storageFailed,  \* some storage operation so far did not end with a commit
    connLeftOpen    \* some connection is open although its Database scope was left

vars == <<users, transactions, bc, log, last, recorded, storageFailed, connLeftOpen>>

Reply(kind) == [kind |-> kind, amount |-> 0, total |-> 0, rows |-> 0]

\* f"Amount added: {amount}\nTotal: {total}"
AddedReply(amount, total) ==
    [kind |-> "added", amount |-> amount, total |-> total, rows |-> 0]

\* the CSV document made of n rows below the header
DocumentReply(n) == [kind |-> "document", amount |-> 0, total |-> 0, rows |-> n]

\* no handler is running broadcast_message
IdleBc ==
    [pc |-> "idle", admin |-> 0, input |-> 0, snapshot |-> <<>>, ui |-> 0, ci |-> 0,
     slept |-> FALSE, report |-> Reply("none")]

NothingRecorded == [c \in ChatIds |-> 0]

Init ==
    /\ users = <<>>
    /\ transactions = <<>>
    /\ bc = IdleBc
    /\ log = <<>>
    /\ last = [op |-> "none", chat |-> 0, text |-> <<>>, reply |-> Reply("none")]
    /\ recorded = NothingRecorded
    /\ storageFailed = FALSE
    /\ connLeftOpen = FALSE

\* time.sleep() holds the only thread of the event loop: while the
\* broadcast sleeps, no other coroutine runs.
LoopBlocked == bc.pc = "sleeping"

\* the handler op of chat c, given text, has ended with reply r; "none" is
\* a handler left by an exception, which sends nothing
Completed(op, c, text, r) == last' = [op |-> op, chat |-> c, text |-> text, reply |-> r]

\* the storage operations of a step ended with outcomes os; the amounts
\* are followed only as long as every operation has committed
Storage(os, r) ==
    /\ storageFailed' = (storageFailed \/ \E i \in 1..Len(os) : os[i] # "ok")
    /\ recorded' = IF storageFailed' THEN NothingRecorded ELSE r
    /\ connLeftOpen' = (connLeftOpen \/ \E i \in 1..Len(os) : ~Closed(os[i]))

(***************************************************************************)
(* handle_message                                                          *)
(***************************************************************************)
HandleMessage(c, text, o1, o2, o3) ==
    LET parsed == ParsedText[text]
        users1 == add_user(users, c, o1)
    IN  /\ ~LoopBlocked
        /\ UNCHANGED <<bc, log>>
        /\ IF Raises(o1)
           THEN /\ o2 = "ok" /\ o3 = "ok"
                /\ Completed("message", c, text, Reply("none"))
                /\ Storage(<<o1>>, recorded)
                /\ UNCHANGED <<users, transactions>>
           ELSE IF ~parsed.match
           THEN /\ o2 = "ok" /\ o3 = "ok"
                /\ users' = users1
                /\ Completed("message", c, text, Reply("guidance"))
                /\ Storage(<<o1>>, recorded)
                /\ UNCHANGED transactions
           ELSE LET amount == parsed.amount
                    tx1 == save_transaction(transactions, c, amount, o2)
                IN  /\ Len(transactions) < MaxTx
                    /\ users' = users1
                    /\ IF Raises(o2)
                       THEN /\ o3 = "ok"
                            /\ UNCHANGED transactions
                            /\ Completed("message", c, text, Reply("none"))
                            /\ Storage(<<o1, o2>>, recorded)
                       ELSE /\ transactions' = tx1
                            /\ Storage(<<o1, o2, o3>>, [recorded EXCEPT ![c] = @ + amount])
                            /\ IF Raises(o3)
                               THEN Completed("message", c, text, Reply("none"))
                               ELSE Completed("message", c, text,
                                              AddedReply(amount, get_total(tx1, c)))

(***************************************************************************)
(* reset_transactions, export_transactions, send_graph, helpme             *)
(***************************************************************************)
\* the mutant of reset_transactions: the row of the user is deleted with
\* the transactions
ResetTransactionsAndUser(c, o) ==
    /\ ~LoopBlocked
    /\ UNCHANGED <<bc, log>>
    /\ Storage(<<o>>, [recorded EXCEPT ![c] = 0])
    /\ IF Raises(o)
       THEN /\ UNCHANGED <<users, transactions>>
            /\ Completed("reset", c, <<>>, Reply("none"))
       ELSE /\ transactions' = IF Persisted(o) THEN DeleteOf(transactions, c) ELSE transactions
            /\ users' = IF Persisted(o) THEN SelectSeq(users, LAMBDA u : u # c) ELSE users
            /\ Completed("reset", c, <<>>, Reply("reset_done"))

ResetTransactions(c, o) ==
    /\ ~LoopBlocked
    /\ UNCHANGED <<users, bc, log>>
    /\ Storage(<<o>>, [recorded EXCEPT ![c] = 0])
    /\ IF Raises(o)
       THEN /\ UNCHANGED transactions
            /\ Completed("reset", c, <<>>, Reply("none"))
       ELSE /\ transactions' = IF Persisted(o) THEN DeleteOf(transactions, c) ELSE transactions
            /\ Completed("reset", c, <<>>, Reply("reset_done"))

\* the CSV file is written and sent whatever the rows are
ExportTransactions(c, o) ==
    /\ ~LoopBlocked
    /\ UNCHANGED <<users, transactions, bc, log>>
    /\ Storage(<<o>>, recorded)
    /\ IF Raises(o)
       THEN Completed("export", c, <<>>, Reply("none"))
       ELSE Completed("export", c, <<>>, DocumentReply(Len(RowsOf(transactions, c))))

SendGraph(c, o) ==
    /\ ~LoopBlocked
    /\ UNCHANGED <<users, transactions, bc, log>>
    /\ Storage(<<o>>, recorded)
    /\ IF Raises(o)
       THEN Completed("graph", c, <<>>, Reply("none"))
       ELSE IF RowsOf(transactions, c) # <<>>
       THEN Completed("graph", c, <<>>, Reply("photo"))
       ELSE Completed("graph", c, <<>>, Reply("no_transactions"))

\* /start and /helpme
Helpme(c) ==
    /\ ~LoopBlocked
    /\ UNCHANGED <<users, transactions, bc, log, recorded, storageFailed, connLeftOpen>>
    /\ Completed("helpme", c, <<>>, Reply("help"))

(***************************************************************************)
(* broadcast_message                                                       *)
(***************************************************************************)
\* the mutant of the recipient loop: the users table is read again at
\* every iteration
RecipientsLive(b) == users

\* for user in users: the list fetched before the loop
Recipients(b) == b.snapshot

NumChunks(b) == Len(ChunksOf[b.input])

\* the mutant of the loops: the chunk loop is the outer one, so chunk j goes
\* to every recipient before chunk j + 1 goes to anyone
AdvanceChunkMajor(b) ==
    IF b.ui < Len(b.snapshot) THEN [b EXCEPT !.pc = "sending", !.ui = @ + 1]
    ELSE IF b.ci < Len(ChunksOf[b.input]) THEN [b EXCEPT !.pc = "sending", !.ui = 1, !.ci = @ + 1]
    ELSE [b EXCEPT !.pc = "replying"]

\* the loops move on: next chunk, else next recipient, else the final reply
Advance(b) ==
    IF b.ci < NumChunks(b) THEN [b EXCEPT !.pc = "sending", !.ci = @ + 1]
    ELSE IF b.ui < Len(Recipients(b)) THEN [b EXCEPT !.pc = "sending", !.ui = @ + 1, !.ci = 1]
    ELSE [b EXCEPT !.pc = "replying"]

\* the mutant of the except clause: there is none, and a failed send ends
\* the handler
AfterFailureAbort(b) == [b EXCEPT !.pc = "aborted"]

\* the mutant of the except clause: the try encloses the chunk loop, so a
\* failed send gives up the remaining chunks of the recipient
AfterFailureSkipRecipient(b) ==
    IF b.ui < Len(Recipients(b)) THEN [b EXCEPT !.pc = "sending", !.ui = @ + 1, !.ci = 1]
    ELSE [b EXCEPT !.pc = "replying"]

\* except Exception: the error is logged and the chunk loop continues
AfterFailure(b) == Advance(b)

Attempt(b, ok) ==
    [to |-> Recipients(b)[b.ui], chunk |-> b.ci, ok |-> ok, delayed |-> b.slept]

\* the mutant of the argument check: it never finds the arguments missing
NoArgsNever(k) == FALSE

\* if not context.args
NoArgs(k) == BroadcastArgs[k] = <<>>

\* from the command to the first await: the argument check, the message,
\* the snapshot, and the call of the first send_message
BroadcastStart(admin, k, o) ==
    /\ bc.pc \in {"idle", "done"}
    /\ UNCHANGED <<users, transactions>>
    /\ log' = <<>>
    /\ IF NoArgs(k)
       THEN /\ o = "ok"
            /\ bc' = IdleBc
            /\ Completed("broadcast", admin, <<>>, Reply("broadcast_prompt"))
            /\ UNCHANGED <<recorded, storageFailed, connLeftOpen>>
       ELSE IF Raises(o)
       THEN /\ bc' = IdleBc
            /\ Completed("broadcast", admin, <<>>, Reply("none"))
            /\ Storage(<<o>>, recorded)
       ELSE /\ bc' = [pc |-> IF users = <<>> THEN "replying" ELSE "sending",
                      admin |-> admin, input |-> k, snapshot |-> users,
                      ui |-> IF users = <<>> THEN 0 ELSE 1,
                      ci |-> IF users = <<>> THEN 0 ELSE 1,
                      slept |-> FALSE, report |-> Reply("none")]
            /\ Storage(<<o>>, recorded)
            /\ UNCHANGED last

\* await context.bot.send_message(...) returns; sleep(RATE_LIMIT_DELAY) begins
SendOk ==
    /\ bc.pc = "sending"
    /\ log' = Append(log, Attempt(bc, TRUE))
    /\ bc' = [bc EXCEPT !.pc = "sleeping", !.slept = FALSE]
    /\ UNCHANGED <<users, transactions, last, recorded, storageFailed, connLeftOpen>>

\* await context.bot.send_message(...) raises: the sleep is skipped
SendFail ==
    /\ bc.pc = "sending"
    /\ log' = Append(log, Attempt(bc, FALSE))
    /\ bc' = AfterFailure([bc EXCEPT !.slept = FALSE])
    /\ UNCHANGED <<users, transactions, last, recorded, storageFailed, connLeftOpen>>

\* sleep(RATE_LIMIT_DELAY) returns
SleepDone ==
    /\ bc.pc = "sleeping"
    /\ bc' = Advance([bc EXCEPT !.slept = TRUE])
    /\ UNCHANGED <<users, transactions, log, last, recorded, storageFailed, connLeftOpen>>

\* await update.message.reply_text("Broadcast sent.")
BroadcastReply ==
    /\ bc.pc = "replying"
    /\ bc' = [bc EXCEPT !.pc = "done", !.report = Reply("broadcast_sent")]
    /\ Completed("broadcast", bc.admin, <<>>, Reply("broadcast_sent"))
    /\ UNCHANGED <<users, transactions, log, recorded, storageFailed, connLeftOpen>>

(***************************************************************************)
(* The system.  The ledger handlers and the broadcast share the users      *)
(* table only, which the broadcast reads once.  LedgerSpec runs every      *)
(* handler but the broadcast over a storage that works, FaultyLedgerSpec   *)
(* the handlers that use the storage over a storage that may fail,         *)
(* BroadcastSpec the broadcast together with the messages that register    *)
(* users, RunSpec the same while the registrations commit, and Spec        *)
(* everything.                                                             *)
(***************************************************************************)
\* texts sent while a broadcast is observed
RegistrationTexts == { <<"a", "b", "c">> }

\* every storage operation succeeds
LedgerNext ==
    \/ \E c \in ChatIds, text \in InputTexts : HandleMessage(c, text, "ok", "ok", "ok")
    \/ \E c \in ChatIds : ResetTransactions(c, "ok")
    \/ \E c \in ChatIds : ExportTransactions(c, "ok")
    \/ \E c \in ChatIds : SendGraph(c, "ok")
    \/ \E c \in ChatIds : Helpme(c)

\* texts sent while the storage may fail: " -3 " and the texts that are
\* not a signed decimal
FaultyTexts == { <<" ", "-", "3", " ">> } \cup NonDecimalTexts

\* storage operations may fail
FaultyLedgerNext ==
    \/ \E c \in ChatIds, text \in FaultyTexts, o1 \in StorageOutcomes :
          \E o2 \in IF Raises(o1) THEN {"ok"} ELSE StorageOutcomes :
             \E o3 \in IF Raises(o2) THEN {"ok"} ELSE StorageOutcomes :
                HandleMessage(c, text, o1, o2, o3)
    \/ \E c \in ChatIds, o \in StorageOutcomes : ResetTransactions(c, o)
    \/ \E c \in ChatIds, o \in StorageOutcomes : ExportTransactions(c, o)
    \/ \E c \in ChatIds, o \in StorageOutcomes : SendGraph(c, o)

BroadcastNext ==
    \/ \E c \in ChatIds, text \in RegistrationTexts, o1 \in StorageOutcomes :
          HandleMessage(c, text, o1, "ok", "ok")
    \/ \E admin \in ChatIds, k \in BroadcastInputs, o \in StorageOutcomes :
          BroadcastStart(admin, k, o)
    \/ SendOk
    \/ SendFail
    \/ SleepDone
    \/ BroadcastReply

\* the broadcast while registrations commit: the storage may fail where
\* the broadcast itself uses it, at the snapshot
RunNext ==
    \/ \E c \in ChatIds, text \in RegistrationTexts : HandleMessage(c, text, "ok", "ok", "ok")
    \/ \E admin \in ChatIds, k \in BroadcastInputs, o \in StorageOutcomes :
          BroadcastStart(admin, k, o)
    \/ SendOk
    \/ SendFail
    \/ SleepDone
    \/ BroadcastReply

Next == LedgerNext \/ FaultyLedgerNext \/ BroadcastNext

LedgerSpec == Init /\ [][LedgerNext]_vars
FaultyLedgerSpec == Init /\ [][FaultyLedgerNext]_vars
BroadcastSpec == Init /\ [][BroadcastNext]_vars
Spec == Init /\ [][Next]_vars

\* The broadcast under the scheduling of the event loop: an awaited send
\* returns or raises, the sleep returns, and the coroutine is resumed for
\* its final reply.  Nothing obliges a user to write or an administrator to
\* broadcast.
RunSpec == Init /\ [][RunNext]_vars

BroadcastLiveSpec ==
    /\ RunSpec
    /\ WF_vars(SendOk \/ SendFail)
    /\ WF_vars(SleepDone)
    /\ WF_vars(BroadcastReply)

(***************************************************************************)
(* Properties.                                                             *)
(***************************************************************************)
Registered(tbl) == {tbl[i] : i \in 1..Len(tbl)}
RowCount(tbl, c) == Cardinality({i \in 1..Len(tbl) : tbl[i] = c})
InFlight == {"sending", "sleeping", "replying"}
WholeRunAttempted == bc.pc \in {"replying", "done"}
FailedRecipients == {log[i].to : i \in {j \in 1..Len(log) : ~log[j].ok}}

C2_EveryPairAttempted ==
    WholeRunAttempted =>
        \A u \in 1..Len(bc.snapshot), j \in 1..NumChunks(bc) :
            \E i \in 1..Len(log) : log[i].to = bc.snapshot[u] /\ log[i].chunk = j

\* a finished broadcast of two chunks to two recipients in which every send
\* to the first recipient failed
C2_Witness ==
    /\ bc.pc = "done"
    /\ Len(bc.snapshot) = 2
    /\ NumChunks(bc) = 2
    /\ Len(log) = 4
    /\ ~log[1].ok /\ ~log[2].ok /\ log[3].ok

\* C3: the result sent to the administrator of a completed broadcast claims
\* delivery only when every chunk was delivered to every recipient.
C3_ReportMatchesDeliveries ==
    (bc.pc = "done" /\ bc.report.kind = "broadcast_sent") => FailedRecipients = {}

\* C4: handle_message sends the success reply only after the row written by
\* save_transaction has been committed.
C4_SuccessReplyOnlyAfterCommit ==
    [][\A c \in ChatIds :
          ((\E text \in InputTexts, o1, o2, o3 \in StorageOutcomes :
               HandleMessage(c, text, o1, o2, o3))
           /\ last'.reply.kind = "added")
          => transactions' =
                Append(transactions, [amount |-> last'.reply.amount,
                                      category |-> DefaultCategory, chat_id |-> c])]_vars

\* the concatenation of the chunks of a broadcast input
ConcatOf == [k \in BroadcastInputs |-> Concat(ChunksOf[k])]

\* C5: the chunks of the message of a broadcast are at most MAX_MSG_LEN
\* long each and their concatenation, in order, is the normalized message.
C5_ChunkRoundTrip ==
    bc.pc # "idle" =>
        /\ \A j \in 1..NumChunks(bc) : Len(ChunksOf[bc.input][j]) <= MAX_MSG_LEN
        /\ ConcatOf[bc.input] = MessageOf[bc.input]

\* a broadcast whose message is longer than MAX_MSG_LEN has sent its last chunk
C5_Witness ==
    /\ bc.pc = "done"
    /\ Len(MessageOf[bc.input]) > MAX_MSG_LEN
    /\ \E i \in 1..Len(log) : log[i].chunk = NumChunks(bc) /\ log[i].ok

\* C6: after reset_transactions of chat c has answered, c has no row and a
\* total of 0, and the rows and totals of every other chat are unchanged.
C6_ResetClearsOnlyOwnRows ==
    [][\A c \in ChatIds :
          ((\E o \in StorageOutcomes : ResetTransactions(c, o))
           /\ last'.reply.kind = "reset_done")
          => /\ RowsOf(transactions', c) = <<>>
             /\ get_total(transactions', c) = 0
             /\ \A d \in ChatIds \ {c} :
                   /\ RowsOf(transactions', d) = RowsOf(transactions, d)
                   /\ get_total(transactions', d) = get_total(transactions, d)]_vars

\* C7: after a call of add_user(c) that returned, the users table holds
\* exactly one row for c, and the call changed nothing if c was there before.
C7_AddUserIdempotent ==
    [][\A c \in ChatIds, text \in InputTexts, o1, o2, o3 \in StorageOutcomes :
          (HandleMessage(c, text, o1, o2, o3) /\ ~Raises(o1))
          => /\ RowCount(users', c) = 1
             /\ (HasUser(users, c) => users' = users)]_vars

\* C8: every send attempt of a broadcast but the first is preceded by a
\* full rate-limit delay since the attempt before it.
C8_DelayBetweenSends == \A i \in 2..Len(log) : log[i].delayed

\* C9: the recipient list of a broadcast in flight never changes, and every
\* send goes to a chat of that list: a chat registered after the snapshot
\* receives nothing.
C9_SnapshotTakenOnce ==
    [][/\ bc.pc \in InFlight => bc'.snapshot = bc.snapshot
       /\ \A i \in 1..Len(log') : HasUser(bc'.snapshot, log'[i].to)]_vars

\* a broadcast has sent a chunk and is about to send another one, while a
\* chat that is not in its snapshot has registered
C9_Witness ==
    /\ bc.pc = "sending"
    /\ Len(log) >= 1
    /\ \E c \in Registered(users) : ~HasUser(bc.snapshot, c)

\* C10 as stated: a text that is not a signed decimal creates no row,
\* changes no total and is answered with the guidance reply.
C10_InvalidTextAnsweredWithGuidance ==
    [][(last'.op = "message" /\ last'.text \in NonDecimalTexts) =>
       \A o1 \in StorageOutcomes :
          HandleMessage(last'.chat, last'.text, o1, "ok", "ok")
          => /\ transactions' = transactions
             /\ \A d \in ChatIds : get_total(transactions', d) = get_total(transactions, d)
             /\ last'.reply.kind = "guidance"]_vars

\* C10 as amended: a text that is not a signed decimal creates no row,
\* changes no total and is never answered with the success reply; it is
\* answered with the guidance reply unless add_user raised, in which case
\* the handler ends without a reply.
C10_InvalidTextNeverRecorded ==
    [][(last'.op = "message" /\ last'.text \in NonDecimalTexts) =>
       \A o1 \in StorageOutcomes :
          HandleMessage(last'.chat, last'.text, o1, "ok", "ok")
          => /\ transactions' = transactions
             /\ \A d \in ChatIds : get_total(transactions', d) = get_total(transactions, d)
             /\ last'.reply.kind # "added"
             /\ last'.reply.kind = IF Raises(o1) THEN "none" ELSE "guidance"]_vars

\* a chat that holds a row has been sent the guidance reply
C10_Witness ==
    /\ last.op = "message"
    /\ last.reply.kind = "guidance"
    /\ RowsOf(transactions, last.chat) # <<>>

\* C11: reset, export and chart of a chat that has no transactions are each
\* answered with the explicit "no data" reply: no document, no photo and no
\* reset-done confirmation is sent.
C11_NoDataAnsweredExplicitly ==
    [][\A c \in ChatIds :
          ((ResetTransactions(c, "ok") \/ ExportTransactions(c, "ok") \/ SendGraph(c, "ok"))
           /\ RowsOf(transactions, c) = <<>>)
          => last'.reply.kind = "no_transactions"]_vars

\* C12: no connection is open once the Database scope that opened it has
\* been left, whether the body succeeded, the body raised or the commit
\* failed.
C12_NoConnectionLeftOpen == ~connLeftOpen

\* the place of chat x in the list seq, which holds it once
IndexIn(seq, x) == CHOOSE i \in 1..Len(seq) : seq[i] = x

\* C13: the send attempts of a broadcast follow the snapshot order and, for
\* one recipient, strictly increasing chunk numbers: no pair is attempted
\* twice and no chunk of a later recipient precedes a chunk of an earlier one.
C13_AttemptsInLoopOrder ==
    \A i, j \in 1..Len(log) :
        i < j =>
            LET pi == IndexIn(bc.snapshot, log[i].to)
                pj == IndexIn(bc.snapshot, log[j].to)
            IN  pi < pj \/ (pi = pj /\ log[i].chunk < log[j].chunk)

\* a finished broadcast of two chunks to two recipients whose second send
\* failed and was followed by the first chunk of the second recipient
C13_Witness ==
    /\ bc.pc = "done"
    /\ Len(log) = 4
    /\ log[1].ok /\ ~log[2].ok
    /\ log[2].to = bc.snapshot[1] /\ log[2].chunk = 2
    /\ log[3].to = bc.snapshot[2] /\ log[3].chunk = 1

\* who can have started a broadcast, read off the state after the start: the
\* administrator of the run in flight or the chat the handler answered
StartedBy == ChatIds \cap {bc.admin, last.chat}

\* C14 as stated: the start of a broadcast invoked with a message puts its
\* run in flight, and every run in flight ends with the final reply to the
\* administrator.
C14_EveryBroadcastCompletes ==
    /\ [][\/ bc'.pc \in InFlight
          \/ ~\E admin \in StartedBy', k \in BroadcastInputs, o \in StorageOutcomes :
                ~NoArgs(k) /\ BroadcastStart(admin, k, o)]_vars
    /\ (bc.pc \in InFlight) ~> (bc.pc = "done" /\ bc.report.kind = "broadcast_sent")

\* C14 as amended: the start of a broadcast invoked with a message whose
\* snapshot read did not raise puts its run in flight, and every run in
\* flight ends with the final reply to the administrator, whatever the
\* snapshot and whichever sends fail.
C14_SnapshotTakenLeadsToReport ==
    /\ [][\/ bc'.pc \in InFlight
          \/ ~\E admin \in StartedBy', k \in BroadcastInputs, o \in StorageOutcomes :
                ~NoArgs(k) /\ ~Raises(o) /\ BroadcastStart(admin, k, o)]_vars
    /\ (bc.pc \in InFlight) ~> (bc.pc = "done" /\ bc.report.kind = "broadcast_sent")

\* a broadcast to two recipients has sent its final reply although every
\* one of its sends failed
C14_Witness ==
    /\ bc.pc = "done"
    /\ bc.report.kind = "broadcast_sent"
    /\ Len(bc.snapshot) = 2
    /\ Len(log) >= 2
    /\ \A i \in 1..Len(log) : ~log[i].ok

\* C15: while a broadcast waits out its rate-limit delay, the handler of a
\* pending inbound message can take its step.
C15_DelayIsCooperative ==
    bc.pc = "sleeping" =>
        \E c \in ChatIds, text \in RegistrationTexts :
            ENABLED HandleMessage(c, text, "ok", "ok", "ok")

\* C16: when the handler of any message or command of chat c has completed,
\* c is in the users table.
C16_RegisteredOnFirstInteraction ==
    [][\A c \in ChatIds :
          (\/ \E text \in InputTexts : HandleMessage(c, text, "ok", "ok", "ok")
           \/ ResetTransactions(c, "ok")
           \/ ExportTransactions(c, "ok")
           \/ SendGraph(c, "ok")
           \/ Helpme(c))
          => HasUser(users', c)]_vars

\* C17: no step removes a chat from the users table.
C17_UsersNeverShrink ==
    [][\A c \in ChatIds : HasUser(users, c) => HasUser(users', c)]_vars

\* a registered chat has reset its transactions while another chat holds a row
C17_Witness ==
    /\ last.op = "reset"
    /\ last.reply.kind = "reset_done"
    /\ HasUser(users, last.chat)
    /\ RowsOf(transactions, last.chat) = <<>>
    /\ transactions # <<>>

\* C18: broadcast_message called without arguments prompts the
\* administrator and ends: no snapshot is read, no connection is opened and
\* no send is attempted.
C18_NoArgsPromptsOnly ==
    [][\A admin \in ChatIds, k \in BroadcastInputs, o \in StorageOutcomes :
          (BroadcastArgs[k] = <<>> /\ BroadcastStart(admin, k, o))
          => /\ last'.reply.kind = "broadcast_prompt"
             /\ bc'.pc = "idle"
             /\ bc'.snapshot = <<>>
             /\ log' = <<>>
             /\ storageFailed' = storageFailed
             /\ connLeftOpen' = connLeftOpen]_vars

\* the administrator has been prompted while users are registered
C18_Witness ==
    /\ last.op = "broadcast"
    /\ last.reply.kind = "broadcast_prompt"
    /\ Len(users) = 2
    /\ bc.pc = "idle"
    /\ log = <<>>

\* C19: the total shown in the success reply of handle_message is the total
\* the chat had before the message plus the amount of the message.
C19_ReplyTotalIsPreviousPlusAmount ==
    [][\A c \in ChatIds :
          ((\E text \in InputTexts, o1, o2, o3 \in StorageOutcomes :
               HandleMessage(c, text, o1, o2, o3))
           /\ last'.reply.kind = "added")
          => last'.reply.total = get_total(transactions, c) + last'.reply.amount]_vars

\* C20: the chat_id of every row of the transactions table is the chat_id of
\* a row of the users table.
C20_ReferentialIntegrity ==
    \A i \in 1..Len(transactions) : HasUser(users, transactions[i].chat_id)

====
